---- MODULE Spec2Model ----
(***************************************************************************)
(* State-machine model of logind-poker.py: one asyncio loop running main() *)
(* (session selection, TakeControl, TakeDevice per --device argument), the *)
(* PauseDevice / ResumeDevice / PropertiesChanged signal handlers of       *)
(* Session, and the readability callback of each Device.                   *)
(*                                                                         *)
(* The login manager, the kernel and the file system are the environment:  *)
(* every reply, signal, stat() result and read() result is drawn from a    *)
(* small set.  A call of the IPC library either returns a value or raises. *)
(* Descriptor numbers are those the process sees: a number that was closed *)
(* may be handed out again.                                                *)
(***************************************************************************)
EXTENDS Integers, Sequences, FiniteSets, TLC

VARIABLES
    sid,          \* main's argument: the session selector (a string)
    device_list,  \* main's argument: the --device paths
    pc,           \* where main() is: the await it is suspended in
    err,          \* the exception that ended main(), "" while none
    sessions,     \* the sessions opened from the ListSessions reply
    session,      \* index in sessions of the selected session, 0 before
    subscribed,   \* Session.connect() has run: signal handlers are installed
    idx,          \* index in device_list of the TakeDevice call in flight
    devices,      \* session._devices: sequence of [major, minor, fd]
    readers,      \* the loop's readers: descriptor -> index of the Device
                  \* whose on_device_data is registered, 0 for none
    openFds,      \* descriptor numbers open in this process
    pauseTasks,   \* on_pause_device coroutines suspended in their await
    controlTaken, \* history: a TakeControl call returned without an error
    controlCalls, \* history: number of TakeControl calls issued
    requested,    \* history: the TakeDevice calls issued, in order
    pausedIds,    \* history: registered identities paused and not resumed
    unopened,     \* history: Devices registered inactive for whose identity
                  \* no resume has arrived since
    stale,        \* history: descriptors a re-open started from, until the
                  \* manager hands the number out again
    ev,           \* history: the last handler that ran, with its arguments
    trace         \* history: the loop and OS calls that handler made

vars == <<sid, device_list, pc, err, sessions, session, subscribed, idx,
          devices, readers, openFds, pauseTasks, controlTaken, controlCalls,
          requested, pausedIds, unopened, stale, ev, trace>>

-----------------------------------------------------------------------------
(* Bounds of the model *)

\* descriptor numbers are 1..MaxFd
MaxFd == 3
\* at most this many --device arguments
MaxDevices == 2
\* at most this many on_pause_device coroutines awaiting their reply
MaxPauseTasks == 1

(* Program constants *)

\* Device.fd of a Device that holds no descriptor
NoFd == -1

Fds == 1..MaxFd

-----------------------------------------------------------------------------
(* Strings are sequences of characters, so that startswith is computed. *)

TTY == <<"t", "t", "y">>

StartsWith(s, p) ==
    /\ Len(s) >= Len(p)
    /\ \A i \in 1..Len(p) : s[i] = p[i]

\* what the manager may list: [id, tty] of each session
SessionA == [id |-> <<"1">>, tty |-> <<"t", "t", "y", "1">>]
SessionB == [id |-> <<"c", "2">>, tty |-> <<"p", "t", "s", "0">>]
Listings == { <<>>, <<SessionA, SessionB>> }

\* the selectors tried: a tty name, a session id, a tty name that is not
\* prefixed by "tty"
Selectors == { <<"t", "t", "y", "1">>, <<"c", "2">>, <<"p", "t", "s", "0">> }

\* device nodes and their st_rdev
Paths == {"event3", "event5"}
Rdev(path) == IF path = "event3" THEN <<13, 67>> ELSE <<13, 69>>

\* the identities the manager may name in a signal: those of the two nodes,
\* and one that shares only its minor with a node
SignalIds == { <<13, 67>>, <<13, 69>>, <<226, 67>> }

SeqsUpTo(S, n) == UNION { [1..k -> S] : k \in 0..n }

DeviceLists == SeqsUpTo(Paths, MaxDevices)

-----------------------------------------------------------------------------
(* Device: open, close, on_device_data.  A machine m is the part of the     *)
(* state a handler works on: [devices, readers, openFds, trace, raised].    *)
(* raised is set by the call that raised; the handler stops there.          *)

Machine(devs, rds, fds) ==
    [devices |-> devs, readers |-> rds, openFds |-> fds,
     trace |-> <<>>, raised |-> FALSE]

Call(m, name, h, f) == [m EXCEPT !.trace = Append(@, <<name, h, f>>)]

Raise(m) == [m EXCEPT !.raised = TRUE]

\* loop.remove_reader(fd): raises on an invalid number, otherwise drops the
\* reader of fd if there is one
RemoveReader(m, h) ==
    LET f == m.devices[h].fd
        c == Call(m, "remove_reader", h, f)
    IN  IF f \notin Fds THEN Raise(c)
        ELSE [c EXCEPT !.readers[f] = 0]

\* os.close(fd): raises unless fd is open
OsClose(m, h) ==
    LET f == m.devices[h].fd
        c == Call(m, "close", h, f)
    IN  IF f \notin m.openFds THEN Raise(c)
        ELSE [c EXCEPT !.openFds = @ \ {f}]

\* loop.add_reader(fd, callback): epoll refuses a descriptor that is not open;
\* a reader already registered on fd is replaced
AddReader(m, h, f) ==
    LET c == Call(m, "add_reader", h, f)
    IN  IF f \notin m.openFds THEN Raise(c)
        ELSE [c EXCEPT !.readers[f] = h]

\* close() that forgets to clear self.fd
DeviceCloseKeepsFd(m, h) ==
    LET m1 == RemoveReader(m, h)
    IN  IF m1.raised THEN m1 ELSE OsClose(m1, h)

DeviceClose(m, h) ==
    LET m1 == RemoveReader(m, h)
        m2 == IF m1.raised THEN m1 ELSE OsClose(m1, h)
    IN  IF m2.raised THEN m2
        ELSE [m2 EXCEPT !.devices[h].fd = NoFd]

\* open() that replaces the descriptor without closing the one it holds
DeviceOpenReplaces(m, h, fd) ==
    AddReader([Call(m, "store", h, fd) EXCEPT !.devices[h].fd = fd], h, fd)

DeviceOpen(m, h, fd) ==
    LET m1 == IF m.devices[h].fd # NoFd THEN DeviceClose(m, h) ELSE m
        m2 == [Call(m1, "store", h, fd) EXCEPT !.devices[h].fd = fd]
    IN  IF m1.raised THEN m1
        ELSE AddReader(m2, h, fd)

\* the except branch of on_device_data
DeviceReadError(m, h) == DeviceClose(Call(m, "read", h, m.devices[h].fd), h)

-----------------------------------------------------------------------------
(* Session *)

\* a lookup that compares the minor only
MatchesMinor(device, major, minor) == device.minor = minor

Matches(device, major, minor) ==
    device.major = major /\ device.minor = minor

\* the loop of on_resume_device from device i on; an exception ends it
RECURSIVE ResumeFrom(_, _, _, _, _)
ResumeFrom(m, i, major, minor, fd) ==
    IF i > Len(m.devices) \/ m.raised THEN m
    ELSE ResumeFrom(IF Matches(m.devices[i], major, minor)
                    THEN DeviceOpen(m, i, fd) ELSE m,
                    i + 1, major, minor, fd)

\* a filter that accepts a session by its tty or by its id
SessionMatchesEither(s, selector) == s.tty = selector \/ s.id = selector

\* the test of the filter in main: by tty for a selector that starts with
\* "tty", by id otherwise
SessionMatches(s, selector) ==
    IF StartsWith(selector, TTY) THEN s.tty = selector ELSE s.id = selector

\* next(filter(...)): the index of the first match, 0 for StopIteration
SelectSession(selector, ss) ==
    LET hits == { i \in 1..Len(ss) : SessionMatches(ss[i], selector) }
    IN  IF hits = {} THEN 0
        ELSE CHOOSE i \in hits : \A j \in hits : i <= j

Registered(major, minor) ==
    \E h \in 1..Len(devices) : Matches(devices[h], major, minor)

\* what is recorded of the last handler: its name, its arguments, whether
\* it raised, and what it logged
Event(op, major, minor, fd, raised, info) ==
    [op |-> op, major |-> major, minor |-> minor, fd |-> fd,
     raised |-> raised, info |-> info]

\* descriptors a handler started to re-open from: the old fd of every
\* Device whose close() it called
Reopened(m) ==
    { m.trace[i][3] : i \in { j \in 1..Len(m.trace) :
                                m.trace[j][1] = "remove_reader" } } \cap Fds

\* the loop is running main() and the bus is connected
Running == pc \in {"take_control", "take_device", "loop"}

-----------------------------------------------------------------------------
(* main() *)

Init ==
    /\ sid \in Selectors
    /\ device_list \in DeviceLists
    /\ pc = "list"
    /\ err = ""
    /\ sessions = <<>>
    /\ session = 0
    /\ subscribed = FALSE
    /\ idx = 0
    /\ devices = <<>>
    /\ readers = [f \in Fds |-> 0]
    /\ openFds = {}
    /\ pauseTasks = <<>>
    /\ controlTaken = FALSE
    /\ controlCalls = 0
    /\ requested = <<>>
    /\ pausedIds = {}
    /\ unopened = {}
    /\ stale = {}
    /\ ev = Event("start", 0, 0, NoFd, FALSE, <<>>)
    /\ trace = <<>>

\* an exception leaves main(): asyncio.run returns and the process ends
Fail(e) == pc' = "failed" /\ err' = e

\* the reply to ListSessions, then open_session for every listed session
ListSessionsReply ==
    /\ pc = "list"
    /\ \/ Fail("Exception") /\ UNCHANGED sessions
       \/ Fail("DBusError") /\ UNCHANGED sessions
       \/ \E listing \in Listings :
              sessions' = listing /\ pc' = "select" /\ UNCHANGED err
    /\ ev' = Event("list_sessions", 0, 0, NoFd, pc' = "failed", <<>>)
    /\ trace' = <<>>
    /\ UNCHANGED <<sid, device_list, session, subscribed, idx, devices,
                   readers, openFds, pauseTasks, controlTaken, controlCalls,
                   requested, pausedIds, unopened, stale>>

\* the selection of the session, session.connect() and the TakeControl call
Connect ==
    /\ pc = "select"
    /\ LET i == SelectSession(sid, sessions)
       IN  IF i = 0
           THEN /\ Fail("StopIteration")
                /\ UNCHANGED <<session, subscribed, controlCalls>>
           ELSE /\ session' = i
                /\ subscribed' = TRUE
                /\ controlCalls' = controlCalls + 1
                /\ pc' = "take_control"
                /\ UNCHANGED err
    /\ ev' = Event("connect", 0, 0, NoFd, pc' = "failed", <<>>)
    /\ trace' = <<>>
    /\ UNCHANGED <<sid, device_list, sessions, idx, devices, readers, openFds,
                   pauseTasks, controlTaken, requested, pausedIds, unopened, stale>>

\* the head of the for loop for device i: os.stat, then the TakeDevice call;
\* past the last device main awaits the disconnect
StartTake(i, statOk) ==
    IF i > Len(device_list)
    THEN pc' = "loop" /\ idx' = 0 /\ UNCHANGED <<err, requested>>
    ELSE IF ~statOk
    THEN Fail("OSError") /\ idx' = i /\ UNCHANGED requested
    ELSE /\ pc' = "take_device"
         /\ idx' = i
         /\ requested' = Append(requested, Rdev(device_list[i]))
         /\ UNCHANGED err

\* the reply to TakeControl: the call raises, or returns res; a res that is
\* not empty is logged as an error and main goes on
TakeControlReply ==
    /\ pc = "take_control"
    /\ \/ /\ Fail("DBusError")
          /\ UNCHANGED <<idx, requested, controlTaken>>
          /\ ev' = Event("take_control", 0, 0, NoFd, TRUE, <<>>)
       \/ \E res \in {"", "error"}, statOk \in BOOLEAN :
              /\ controlTaken' = (res = "")
              /\ StartTake(1, statOk)
              /\ ev' = Event("take_control", 0, 0, NoFd, pc' = "failed",
                             <<res>>)
    /\ trace' = <<>>
    /\ UNCHANGED <<sid, device_list, sessions, session, subscribed, devices,
                   readers, openFds, pauseTasks, controlCalls, pausedIds, unopened,
                   stale>>

\* the reply to TakeDevice for device_list[idx]: the call raises, returns an
\* empty res, or returns (fd, inactive)
TakeDeviceReply ==
    /\ pc = "take_device"
    /\ LET id == Rdev(device_list[idx])
       IN  \/ /\ Fail("DBusError")
              /\ ev' = Event("take_device", id[1], id[2], NoFd, TRUE, <<>>)
              /\ trace' = <<>>
              /\ UNCHANGED <<idx, requested, devices, readers, openFds,
                             unopened, stale>>
           \/ \E statOk \in BOOLEAN :
                  /\ StartTake(idx + 1, statOk)
                  /\ ev' = Event("take_device", id[1], id[2], NoFd,
                                 pc' = "failed", <<"empty">>)
                  /\ trace' = <<>>
                  /\ UNCHANGED <<devices, readers, openFds, unopened, stale>>
           \/ \E fd \in Fds \ openFds, inactive \in BOOLEAN,
                 statOk \in BOOLEAN :
                  LET device == [major |-> id[1], minor |-> id[2], fd |-> NoFd]
                      devs == Append(devices, device)
                      m0 == Machine(devs, readers, openFds \cup {fd})
                      m == IF inactive THEN m0 ELSE DeviceOpen(m0, Len(devs), fd)
                  IN  /\ devices' = m.devices
                      /\ readers' = m.readers
                      /\ openFds' = m.openFds
                      /\ trace' = m.trace
                      /\ stale' = stale \ {fd}
                      /\ unopened' = IF inactive
                                     THEN unopened \cup {Len(devs)}
                                     ELSE unopened
                      /\ IF m.raised
                         THEN Fail("OSError") /\ UNCHANGED <<idx, requested>>
                         ELSE StartTake(idx + 1, statOk)
                      /\ ev' = Event("take_device", id[1], id[2], fd,
                                     pc' = "failed",
                                     <<IF inactive THEN "inactive"
                                       ELSE "active">>)
    /\ UNCHANGED <<sid, device_list, sessions, session, subscribed,
                   pauseTasks, controlTaken, controlCalls, pausedIds>>

\* the bus is disconnected: bus.wait_for_disconnect() returns, or raises
\* when the connection was lost, and the exception leaves main()
Disconnect ==
    /\ pc = "loop"
    /\ \/ pc' = "done" /\ UNCHANGED err
       \/ Fail("Exception")
    /\ ev' = Event("disconnect", 0, 0, NoFd, pc' = "failed", <<>>)
    /\ trace' = <<>>
    /\ UNCHANGED <<sid, device_list, sessions, session, subscribed, idx,
                   devices, readers, openFds, pauseTasks, controlTaken,
                   controlCalls, requested, pausedIds, unopened, stale>>

mainVars == <<sid, device_list, pc, err, sessions, session, subscribed, idx,
              controlTaken, controlCalls, requested>>

-----------------------------------------------------------------------------
(* The signal handlers of Session and the readability callback of Device *)

\* a handler that closes the paused Devices before it acknowledges
RECURSIVE PauseHandlerCloses(_, _, _)
PauseHandlerCloses(m, major, minor) ==
    LET hs == { h \in 1..Len(m.devices) :
                  /\ m.devices[h].major = major /\ m.devices[h].minor = minor
                  /\ m.devices[h].fd \in m.openFds }
    IN  IF hs = {} \/ m.raised
        THEN Call(m, "pause_device_complete", major, minor)
        ELSE PauseHandlerCloses(DeviceClose(m, CHOOSE h \in hs : TRUE),
                                major, minor)

\* a handler that is suspended before it issues PauseDeviceComplete
PauseHandlerDefers(m, major, minor) == m

\* on_pause_device up to its await: the PauseDeviceComplete call is issued
PauseHandler(m, major, minor) ==
    Call(m, "pause_device_complete", major, minor)

\* the PauseDeviceComplete calls a handler issued, as (major, minor) pairs
Acked(m) ==
    LET calls == { j \in 1..Len(m.trace) :
                     m.trace[j][1] = "pause_device_complete" }
    IN  [k \in 1..Cardinality(calls) |->
           LET j == CHOOSE j \in calls :
                      Cardinality({ i \in calls : i <= j }) = k
           IN  <<m.trace[j][2], m.trace[j][3]>>]

\* a PauseDevice signal: the handler runs to its await and is suspended
OnPauseDevice ==
    /\ Running /\ subscribed
    /\ Len(pauseTasks) < MaxPauseTasks
    /\ \E id \in SignalIds, tipo \in {"pause", "force", "gone"} :
          LET major == id[1]
              minor == id[2]
              m == PauseHandler(Machine(devices, readers, openFds),
                                major, minor)
          IN  /\ devices' = m.devices
              /\ readers' = m.readers
              /\ openFds' = m.openFds
              /\ trace' = m.trace
              /\ pauseTasks' = Append(pauseTasks,
                                      [major |-> major, minor |-> minor,
                                       acked |-> Acked(m)])
              /\ pausedIds' = IF Registered(major, minor)
                              THEN pausedIds \cup {<<major, minor>>}
                              ELSE pausedIds
              /\ ev' = Event("pause", major, minor, NoFd, m.raised, <<>>)
    /\ UNCHANGED <<mainVars, unopened, stale>>

\* the reply to PauseDeviceComplete: the oldest suspended handler returns,
\* or the call raises in it
PauseCompleteReply ==
    /\ Running
    /\ pauseTasks # <<>>
    /\ \E ok \in BOOLEAN :
          LET t == Head(pauseTasks)
          IN  ev' = Event("pause_return", t.major, t.minor, NoFd, ~ok,
                          t.acked)
    /\ pauseTasks' = Tail(pauseTasks)
    /\ trace' = <<>>
    /\ UNCHANGED <<mainVars, devices, readers, openFds, pausedIds, unopened, stale>>

\* a ResumeDevice signal carrying a descriptor the process did not hold
OnResumeDevice ==
    /\ Running /\ subscribed
    /\ \E id \in SignalIds, fd \in Fds \ openFds :
          LET major == id[1]
              minor == id[2]
              m == ResumeFrom(Machine(devices, readers, openFds \cup {fd}),
                              1, major, minor, fd)
          IN  /\ devices' = m.devices
              /\ readers' = m.readers
              /\ openFds' = m.openFds
              /\ trace' = m.trace
              /\ stale' = (stale \ {fd}) \cup Reopened(m)
              /\ pausedIds' = pausedIds \ {<<major, minor>>}
              /\ unopened' = { h \in unopened :
                                 ~Matches(devices[h], major, minor) }
              /\ ev' = Event("resume", major, minor, fd, m.raised, <<>>)
    /\ UNCHANGED <<mainVars, pauseTasks>>

\* a PropertiesChanged signal: logged
OnPropertiesChanged ==
    /\ Running /\ subscribed
    /\ ev' = Event("properties_changed", 0, 0, NoFd, FALSE, <<>>)
    /\ trace' = <<>>
    /\ UNCHANGED <<mainVars, devices, readers, openFds, pauseTasks,
                   pausedIds, unopened, stale>>

\* the loop finds a watched descriptor readable and calls the registered
\* on_device_data: os.read returns data, or raises and the Device is closed;
\* the Device whose callback ran is recorded with what it logged
OnDeviceData ==
    /\ Running
    /\ \E f \in Fds :
          /\ readers[f] # 0
          /\ LET h == readers[f]
                 d == devices[h]
                 m0 == Machine(devices, readers, openFds)
             IN  \/ /\ d.fd \in openFds
                    /\ ev' = Event("device_data", d.major, d.minor, f, FALSE,
                                   <<"data", h>>)
                    /\ trace' = <<<<"read", h, d.fd>>>>
                    /\ UNCHANGED <<devices, readers, openFds>>
                 \/ LET m == DeviceReadError(m0, h)
                    IN  /\ devices' = m.devices
                        /\ readers' = m.readers
                        /\ openFds' = m.openFds
                        /\ trace' = m.trace
                        /\ ev' = Event("device_data", d.major, d.minor, f,
                                       m.raised, <<"error", h>>)
    /\ UNCHANGED <<mainVars, pauseTasks, pausedIds, unopened, stale>>

Next ==
    \/ ListSessionsReply
    \/ Connect
    \/ TakeControlReply
    \/ TakeDeviceReply
    \/ Disconnect
    \/ OnPauseDevice
    \/ PauseCompleteReply
    \/ OnResumeDevice
    \/ OnPropertiesChanged
    \/ OnDeviceData

Spec == Init /\ [][Next]_vars

-----------------------------------------------------------------------------
(* A Device driven directly: Devices that hold no descriptor, on which     *)
(* open and close are called in any order, open with a descriptor that was *)
(* just received.                                                          *)

InitDevice ==
    /\ sid = <<>>
    /\ device_list = <<>>
    /\ pc = "device"
    /\ err = ""
    /\ sessions = <<>>
    /\ session = 0
    /\ subscribed = FALSE
    /\ idx = 0
    /\ devices = [h \in 1..MaxDevices |->
                    [major |-> 13, minor |-> 66 + h, fd |-> NoFd]]
    /\ readers = [f \in Fds |-> 0]
    /\ openFds = {}
    /\ pauseTasks = <<>>
    /\ controlTaken = FALSE
    /\ controlCalls = 0
    /\ requested = <<>>
    /\ pausedIds = {}
    /\ unopened = {}
    /\ stale = {}
    /\ ev = Event("start", 0, 0, NoFd, FALSE, <<>>)
    /\ trace = <<>>

\* device.open(fd)
Activate ==
    /\ pc = "device"
    /\ \E h \in 1..Len(devices), fd \in Fds \ openFds :
          LET m == DeviceOpen(Machine(devices, readers, openFds \cup {fd}),
                              h, fd)
          IN  /\ devices' = m.devices
              /\ readers' = m.readers
              /\ openFds' = m.openFds
              /\ trace' = m.trace
              /\ stale' = (stale \ {fd}) \cup Reopened(m)
              /\ ev' = Event("open", devices[h].major, devices[h].minor, fd,
                             m.raised, <<h>>)
    /\ UNCHANGED <<mainVars, pauseTasks, pausedIds, unopened>>

\* device.close()
Deactivate ==
    /\ pc = "device"
    /\ \E h \in 1..Len(devices) :
          LET m == DeviceClose(Machine(devices, readers, openFds), h)
          IN  /\ devices' = m.devices
              /\ readers' = m.readers
              /\ openFds' = m.openFds
              /\ trace' = m.trace
              /\ ev' = Event("close", devices[h].major, devices[h].minor,
                             devices[h].fd, m.raised, <<h>>)
    /\ UNCHANGED <<mainVars, pauseTasks, pausedIds, unopened, stale>>

NextDevice == Activate \/ Deactivate

SpecDevice == InitDevice /\ [][NextDevice]_vars

-----------------------------------------------------------------------------
(* main() started with one more --device than the lists of Spec have, all  *)
(* naming the same node.                                                   *)

InitSameNode ==
    /\ sid = <<"t", "t", "y", "1">>
    /\ device_list = [i \in 1..(MaxDevices + 1) |-> "event3"]
    /\ pc = "list"
    /\ err = ""
    /\ sessions = <<>>
    /\ session = 0
    /\ subscribed = FALSE
    /\ idx = 0
    /\ devices = <<>>
    /\ readers = [f \in Fds |-> 0]
    /\ openFds = {}
    /\ pauseTasks = <<>>
    /\ controlTaken = FALSE
    /\ controlCalls = 0
    /\ requested = <<>>
    /\ pausedIds = {}
    /\ unopened = {}
    /\ stale = {}
    /\ ev = Event("start", 0, 0, NoFd, FALSE, <<>>)
    /\ trace = <<>>

SpecSameNode == InitSameNode /\ [][Next]_vars

-----------------------------------------------------------------------------
(* What the claims speak of *)

Handles == 1..Len(devices)

\* Device h was registered for the identity (major, minor)
HasIdentity(h, major, minor) ==
    devices[h].major = major /\ devices[h].minor = minor

\* some Device was registered for the identity
Known(major, minor) == \E h \in Handles : HasIdentity(h, major, minor)

\* a Device is Active when the loop watches an open descriptor for it
Active(h) == \E f \in Fds : readers[f] = h /\ f \in openFds

\* position of a call in a trace, 0 when it was not made
Pos(t, call) ==
    IF \E j \in 1..Len(t) : t[j] = call
    THEN CHOOSE j \in 1..Len(t) : t[j] = call /\ \A i \in 1..(j - 1) : t[i] # call
    ELSE 0

-----------------------------------------------------------------------------
\* a close that followed an open, while a Device holds a descriptor
C1_Witness ==
    /\ ev.op = "close" /\ ~ev.raised
    /\ \E h \in Handles : devices[h].fd # NoFd

(* C1: after every open or close call on a Device, in any sequence of such *)
(* calls, the Device holds a descriptor (fd # -1) exactly when it is       *)
(* Active.                                                                 *)
C1_DescriptorIffActive ==
    \A h \in Handles : (devices[h].fd # NoFd) <=> Active(h)

-----------------------------------------------------------------------------
\* the calls of a step that re-opens Device h: remove_reader(old) and
\* close(old), in this order and before anything else h does, then the store
\* of new, then add_reader(new)
C2_ReopenOrder ==
    \A h \in Handles :
        LET old == devices[h].fd
            new == devices'[h].fd
            rm == Pos(trace', <<"remove_reader", h, old>>)
            cl == Pos(trace', <<"close", h, old>>)
            st == Pos(trace', <<"store", h, new>>)
            ad == Pos(trace', <<"add_reader", h, new>>)
        IN  (old # NoFd /\ st # 0) =>
                /\ 0 < rm /\ rm < cl /\ cl < st /\ st < ad
                /\ \A j \in 1..(cl - 1) :
                       trace'[j][2] = h => trace'[j][1] = "remove_reader"

C2_StaleUnwatched == \A f \in stale : readers[f] = 0

C2_NoCallbackOnStale == ev'.op = "device_data" => ev'.fd \notin stale

\* a resume re-opened a Device that held a descriptor
C2_Witness ==
    /\ ev.op = "resume" /\ ~ev.raised
    /\ \E j \in 1..Len(trace) : trace[j][1] = "close"
    /\ stale # {}

(* C2: when open(new) runs on a Device that holds old, the reader of old   *)
(* is removed and old is closed before new is stored and registered; and   *)
(* from then on no readability callback is delivered for old: no reader    *)
(* is registered on it and on_device_data never runs for it (until the     *)
(* manager hands out that descriptor number again).                        *)
C2_CloseBeforeReopen ==
    /\ []C2_StaleUnwatched
    /\ [][C2_ReopenOrder /\ C2_NoCallbackOnStale]_vars

-----------------------------------------------------------------------------
\* the resume is taken right after the pause handler ran: with nothing in
\* between, a Device of the identity is Active with d after it
C3_ResumeActivates ==
    (/\ ev.op \in {"pause", "pause_return"}
     /\ ev'.op = "resume"
     /\ ev'.major = ev.major /\ ev'.minor = ev.minor
     /\ <<ev'.major, ev'.minor>> \in pausedIds
     /\ Known(ev'.major, ev'.minor))
    => \E h \in Handles :
          /\ HasIdentity(h, ev'.major, ev'.minor)
          /\ devices'[h].fd = ev'.fd
          /\ readers'[ev'.fd] = h
          /\ ev'.fd \in openFds'

Notification(e) ==
    e.op \in {"pause", "pause_return", "resume", "properties_changed"}

C3_UnrelatedFrame ==
    Notification(ev') =>
        \A h \in Handles :
            ~HasIdentity(h, ev'.major, ev'.minor) =>
                /\ devices'[h] = devices[h]
                /\ \A f \in Fds : readers[f] = h => readers'[f] = h

(* C3: for a registered identity, a pause followed by a resume carrying    *)
(* descriptor d leaves its Device Active with descriptor d, and the        *)
(* notifications for other identities do not touch that Device.            *)
C3_PauseThenResume == [][C3_ResumeActivates /\ C3_UnrelatedFrame]_vars

-----------------------------------------------------------------------------
\* a step of a pause or resume handler for an identity of no Device
C4_Unmatched ==
    /\ ev'.op \in {"pause", "pause_return", "resume"}
    /\ ~Known(ev'.major, ev'.minor)

-----------------------------------------------------------------------------
(* C5: a TakeDevice call is issued only after a TakeControl call that      *)
(* succeeded; after a TakeControl reply that carried an error no device is *)
(* requested.                                                              *)
C5_TakeDeviceAfterControl == requested # <<>> => controlTaken

(* C6: no Device holds a descriptor unless control was taken by a          *)
(* TakeControl call that returned without an error.                        *)
C6_ActiveOnlyWithControl ==
    \A h \in Handles : devices[h].fd # NoFd => controlTaken

-----------------------------------------------------------------------------
C7_ActiveAtOnce ==
    (ev.op = "take_device" /\ ev.fd # NoFd /\ ev.info = <<"active">>) =>
        /\ devices[Len(devices)].fd = ev.fd
        /\ readers[ev.fd] = Len(devices)

C7_UnopenedUntilResume ==
    \A h \in unopened : devices[h].fd = NoFd /\ ~Active(h)

C7_ResumeOpens ==
    \A h \in unopened :
        (ev'.op = "resume" /\ HasIdentity(h, ev'.major, ev'.minor)) =>
            devices'[h].fd = ev'.fd

(* C7: after a TakeDevice reply (fd, inactive) is processed the new Device *)
(* is Active with fd when inactive is false; when it is true the Device    *)
(* holds no descriptor and has no reader until a resume for its identity   *)
(* arrives, and holds the descriptor of that resume then.                  *)
C7_TakeDeviceReply ==
    /\ [](C7_ActiveAtOnce /\ C7_UnopenedUntilResume)
    /\ [][C7_ResumeOpens]_vars

-----------------------------------------------------------------------------
\* every suspended handler has issued one PauseDeviceComplete, for the
\* identity of its signal, and so has the handler that returned
C8_OneAck ==
    /\ \A i \in 1..Len(pauseTasks) :
          pauseTasks[i].acked =
              << <<pauseTasks[i].major, pauseTasks[i].minor>> >>
    /\ ev.op = "pause_return" => ev.info = << <<ev.major, ev.minor>> >>

\* neither step of the handler changes a Device, a reader or a descriptor
C8_HandlerKeeps ==
    ev'.op \in {"pause", "pause_return"} =>
        devices' = devices /\ readers' = readers /\ openFds' = openFds

Paused(h) == <<devices[h].major, devices[h].minor>> \in pausedIds

\* the descriptor of a paused Device changes only in the handlers ops
C8_PausedChangedBy(ops) ==
    \A h \in Handles :
        (Paused(h) /\ devices'[h].fd # devices[h].fd) => ev'.op \in ops

-----------------------------------------------------------------------------
(* C9: a TakeDevice call that fails does not end the acquisition: every    *)
(* later device of the list is still requested.                            *)
C9_FailedTakeDeviceGoesOn ==
    (pc = "failed" /\ ev.op = "take_device" /\ err = "DBusError") =>
        Len(requested) = Len(device_list)

-----------------------------------------------------------------------------
\* no listed session has the selector as its tty, for a selector that starts
\* with "tty", or as its id, for any other
C10_NoMatch ==
    IF Len(sid) >= 3 /\ SubSeq(sid, 1, 3) = <<"t", "t", "y">>
    THEN \A i \in 1..Len(sessions) : sessions[i].tty # sid
    ELSE \A i \in 1..Len(sessions) : sessions[i].id # sid

\* the listing arrived and the selection was made
C10_Selected == pc \notin {"list", "select"} /\ ev.op # "list_sessions"

\* the listing is not empty and names the selector as a tty, but the
\* selector is matched by id
C10_Witness ==
    /\ pc = "failed" /\ err = "StopIteration"
    /\ \E i \in 1..Len(sessions) : sessions[i].tty = sid

(* C10: when no listed session matches the selector (its tty for a         *)
(* selector that starts with "tty", its id otherwise), main fails before   *)
(* it subscribes to a signal, calls TakeControl or TakeDevice, and never   *)
(* reaches the wait for the disconnect: nothing runs after the failure.    *)
C10_SessionNotFound ==
    (C10_Selected /\ C10_NoMatch) =>
        /\ pc = "failed" /\ err = "StopIteration"
        /\ ~subscribed
        /\ controlCalls = 0
        /\ requested = <<>>
        /\ devices = <<>>
        /\ ~ENABLED Next

-----------------------------------------------------------------------------
\* os.read failed in the callback of an Active Device h: h is closed and
\* cleared, nothing is raised into the loop, no other Device changes and
\* main stays where it is
C11_ReadErrorDeactivates ==
    (/\ ev'.op = "device_data"
     /\ ev'.info[1] = "error"
     /\ Active(ev'.info[2]))
    => LET h == ev'.info[2]
           f == devices[h].fd
       IN  /\ ~ev'.raised
           /\ devices'[h].fd = NoFd
           /\ readers'[f] = 0
           /\ f \notin openFds'
           /\ \A g \in Handles \ {h} :
                  /\ devices'[g] = devices[g]
                  /\ \A x \in Fds : readers[x] = g => readers'[x] = g
           /\ pc' = pc

\* the next event is a resume for the identity of the Device the read error
\* closed: the Device is Active with the descriptor of the resume
C11_ResumeReactivates ==
    (/\ ev.op = "device_data"
     /\ ev.info[1] = "error"
     /\ devices[ev.info[2]].fd = NoFd
     /\ ev'.op = "resume"
     /\ HasIdentity(ev.info[2], ev'.major, ev'.minor))
    => LET h == ev.info[2]
       IN  /\ devices'[h].fd = ev'.fd
           /\ readers'[ev'.fd] = h
           /\ ev'.fd \in openFds'

(* C11: when the read fails in on_device_data of an Active Device, the     *)
(* Device is deactivated (reader removed, descriptor closed and cleared),  *)
(* nothing is raised into the loop, every other Device is unchanged, and   *)
(* the loop goes on: a later resume for its identity activates the Device  *)
(* again.                                                                  *)
C11_ReadErrorRecovered ==
    [][C11_ReadErrorDeactivates /\ C11_ResumeReactivates]_vars

-----------------------------------------------------------------------------
\* the on_pause_device coroutines for the identity that are still suspended
C12_Suspended(major, minor) ==
    { i \in 1..Len(pauseTasks) :
        pauseTasks[i].major = major /\ pauseTasks[i].minor = minor }

\* a pause is not dropped or merged: its handler runs as one more coroutine,
\* which has issued the acknowledgment for its identity when it is suspended
C12_PauseObserved ==
    ev'.op = "pause" =>
        /\ Len(pauseTasks') = Len(pauseTasks) + 1
        /\ pauseTasks'[Len(pauseTasks')].acked = << <<ev'.major, ev'.minor>> >>

\* a resume is not dropped, and runs after the earlier pauses for its
\* identity issued their acknowledgment: open is called on the first Device
\* of the identity, and no suspended coroutine is touched
C12_ResumeObserved ==
    (ev'.op = "resume" /\ Known(ev'.major, ev'.minor)) =>
        /\ \A i \in C12_Suspended(ev'.major, ev'.minor) :
               pauseTasks[i].acked = << <<ev'.major, ev'.minor>> >>
        /\ pauseTasks' = pauseTasks
        /\ trace' # <<>>
        /\ HasIdentity(trace'[1][2], ev'.major, ev'.minor)
        /\ \A g \in 1..(trace'[1][2] - 1) :
               ~HasIdentity(g, ev'.major, ev'.minor)

\* a resume ran while the handler of an earlier pause for the same
\* registered identity was suspended in its await
C12_Witness ==
    /\ ev.op = "resume" /\ ~ev.raised
    /\ Known(ev.major, ev.minor)
    /\ C12_Suspended(ev.major, ev.minor) # {}
    /\ \E h \in Handles :
          HasIdentity(h, ev.major, ev.minor) /\ devices[h].fd = ev.fd

(* C12: pause and resume notifications for one identity take effect in the *)
(* order of emission, none dropped or merged, and the handler of an        *)
(* earlier pause has finished, acknowledgment included, before the handler *)
(* of a later resume for the identity changes the Device.                  *)
C12_PauseFinishedBeforeResume ==
    [][/\ C12_PauseObserved
       /\ C12_ResumeObserved
       /\ (ev'.op = "resume" /\ Known(ev'.major, ev'.minor)) =>
              C12_Suspended(ev'.major, ev'.minor) = {}]_vars

(* C12 as amended: pause and resume notifications for one identity take    *)
(* effect in the order of emission, none dropped or merged, and the        *)
(* handler of an earlier pause has issued its acknowledgment before the    *)
(* handler of a later resume changes the Device; it may still be suspended *)
(* in the await of the reply then.                                         *)
C12_PauseAckedBeforeResume ==
    [][C12_PauseObserved /\ C12_ResumeObserved]_vars

-----------------------------------------------------------------------------
(* C13: between a pause for a registered identity and the next resume for  *)
(* it, on_device_data is not called for the descriptor of a Device of that *)
(* identity.                                                               *)
C13_NoCallbackWhilePaused ==
    [][ev'.op = "device_data" =>
          ~(/\ Paused(ev'.info[2])
            /\ devices[ev'.info[2]].fd = ev'.fd)]_vars

-----------------------------------------------------------------------------
\* the events of the steady state other than the disconnect
C14_SteadyEvents ==
    {"pause", "pause_return", "resume", "properties_changed", "device_data"}

(* C14: once main waits in the loop, the disconnect of the bus ends main   *)
(* as a normal shutdown, without an exception, whatever the Devices hold;  *)
(* and no pause, resume, properties-changed or read error ends the wait.   *)
C14_DisconnectIsShutdown ==
    [][pc = "loop" =>
          /\ ev'.op = "disconnect" => (pc' = "done" /\ err' = "")
          /\ ev'.op \in C14_SteadyEvents => pc' = "loop"]_vars

-----------------------------------------------------------------------------
(* C15: in every state of the running program a Device holds a descriptor  *)
(* (fd # -1) exactly when it is Active, and a Device whose identity was    *)
(* paused and not resumed since holds none.                                *)
C15_DescriptorIffActiveAlways ==
    \A h \in Handles :
        /\ (devices[h].fd # NoFd) <=> Active(h)
        /\ Paused(h) => devices[h].fd = NoFd

-----------------------------------------------------------------------------
C16_UniqueIdentity ==
    \A g, h \in Handles :
        HasIdentity(g, devices[h].major, devices[h].minor) => g = h

\* the Devices on which a handler called open: those it stored a descriptor in
C16_Opened(t) == { t[j][2] : j \in { i \in 1..Len(t) : t[i][1] = "store" } }

C16_ResumeOpensOne ==
    ev'.op = "resume" => Cardinality(C16_Opened(trace')) <= 1

(* C16: no two Devices of the session have the same (major, minor), for    *)
(* any list of device paths, one that names a node twice included; so a    *)
(* resume opens at most one Device.                                        *)
C16_OneDevicePerIdentity ==
    /\ []C16_UniqueIdentity
    /\ [][C16_ResumeOpensOne]_vars

-----------------------------------------------------------------------------
(* C17: close() on a Device that holds no descriptor (fd = -1) raises      *)
(* nothing, closes nothing, removes no reader and leaves the Device as it  *)
(* was.                                                                    *)
C17_CloseWithoutDescriptor ==
    [][(ev'.op = "close" /\ devices[ev'.info[1]].fd = NoFd) =>
          /\ ~ev'.raised
          /\ devices' = devices
          /\ readers' = readers
          /\ openFds' = openFds]_vars

-----------------------------------------------------------------------------
\* the handlers are installed before TakeControl and TakeDevice are called,
\* and so before a Device exists
C18_SubscribedFirst ==
    (controlCalls > 0 \/ requested # <<>> \/ devices # <<>>) => subscribed

\* a resume that arrives after the inactive reply for a Device was processed
\* finds the Device in the list and calls open on it with its descriptor
C18_ResumeFindsDevice ==
    \A h \in unopened :
        (ev'.op = "resume" /\ HasIdentity(h, ev'.major, ev'.minor)) =>
            \E j \in 1..Len(trace') : trace'[j] = <<"store", h, ev'.fd>>

(* C18: the pause and resume handlers are subscribed before the            *)
(* TakeControl call and before every TakeDevice call, so a notification    *)
(* emitted after a device was handed out reaches a handler; a resume that  *)
(* follows the reply for an inactive device finds its Device registered    *)
(* and activates it.                                                       *)
C18_SubscribedBeforeTake ==
    /\ []C18_SubscribedFirst
    /\ [][C18_ResumeFindsDevice]_vars

-----------------------------------------------------------------------------
\* every descriptor that was delivered and is still open is the fd of
\* exactly one Device
C19_HeldByOne ==
    \A f \in openFds :
        Cardinality({ h \in Handles : devices[h].fd = f }) = 1

\* os.close is not called on a descriptor that is closed already: no
\* handler ends in an os.close that raised
C19_NoDoubleClose ==
    ~(/\ ev'.raised
      /\ trace' # <<>>
      /\ trace'[Len(trace')][1] = "close")

(* C19: every descriptor the manager delivers, in a TakeDevice reply       *)
(* (active or inactive) or in a resume (for a known or unknown identity),  *)
(* is in every state held by exactly one Device or closed; and no          *)
(* descriptor is closed twice.                                             *)
C19_NoDescriptorLeak ==
    /\ []C19_HeldByOne
    /\ [][C19_NoDoubleClose]_vars

-----------------------------------------------------------------------------
(* C20: in every state the descriptors the loop watches are those the      *)
(* Devices hold (fd # -1), each watched with the callback of the Device    *)
(* that holds it; none of them is closed, and no held descriptor is left   *)
(* unwatched.                                                              *)
C20_WatchConsistency ==
    /\ \A f \in Fds :
           readers[f] # 0 =>
               /\ readers[f] \in Handles
               /\ devices[readers[f]].fd = f
               /\ f \in openFds
    /\ \A h \in Handles :
           devices[h].fd # NoFd => readers[devices[h].fd] = h

====
